---------------------------- MODULE Spec2Model ----------------------------
(***************************************************************************)
(* Work scheduler: a backtracking solver that staffs every open hour of a  *)
(* seven-day week (solve_schedule), followed by a pass that tops up        *)
(* employees below their minimum hours with "Floater" shifts               *)
(* (assign_extra_shifts), both driven by schedule_shifts.                  *)
(*                                                                         *)
(* Employees are identified by name (names are unique within a run); a     *)
(* schedule cell holds the names of the employees assigned to it, in the   *)
(* order they were appended.  Python dicts are functions whose DOMAIN is   *)
(* the set of keys present; Python lists are sequences.                    *)
(***************************************************************************)
EXTENDS Integers, Sequences, FiniteSets, TLC

VARIABLES
    employees,              \* List[Employee], input, fixed for the run
    reqs,                   \* EmployerRequirements, input, fixed for the run
    schedule,               \* {day: {hour: {role: [employee name]}}}
    weekly_assigned_hours,  \* {employee name: hours}
    daily_shifts,           \* {employee name: [day]}, keys added on first use
    stack,                  \* active solve_schedule calls, innermost last
    ret,                    \* value handed back by the call that just returned
    pc,                     \* position inside schedule_shifts
    bal,                    \* locals of assign_extra_shifts
    returned                \* what schedule_shifts returns

vars == <<employees, reqs, schedule, weekly_assigned_hours, daily_shifts,
          stack, ret, pc, bal, returned>>

-----------------------------------------------------------------------------
(* Generic helpers *)

Range(s) == {s[i] : i \in DOMAIN s}

EmptyDict == [x \in {} |-> 0]

\* dict.get(key, default)
Get(d, k, default) == IF k \in DOMAIN d THEN d[k] ELSE default

\* list.remove(x): drops the first occurrence of x
ListRemove(s, x) ==
    LET i == CHOOSE j \in DOMAIN s : s[j] = x /\ \A k \in 1..(j - 1) : s[k] # x
    IN SubSeq(s, 1, i - 1) \o SubSeq(s, i + 1, Len(s))

RECURSIVE SumOver(_, _)
SumOver(S, f) ==
    IF S = {} THEN 0
    ELSE LET x == CHOOSE y \in S : TRUE IN f[x] + SumOver(S \ {x}, f)

\* s keeps the elements of t's prefix order: s is a subsequence of t
RECURSIVE IsSubseq(_, _)
IsSubseq(s, t) ==
    IF s = <<>> THEN TRUE
    ELSE IF t = <<>> THEN FALSE
    ELSE IF Head(s) = Head(t) THEN IsSubseq(Tail(s), Tail(t))
    ELSE IsSubseq(s, Tail(t))

-----------------------------------------------------------------------------
(* Program constants *)

days == <<"Monday", "Tuesday", "Wednesday", "Thursday", "Friday",
          "Saturday", "Sunday">>

Floater == "Floater"


\* mutant of hours: range(open, close - 1), the last open hour is dropped
hours_short(rq) == rq.work_hours[1] .. (rq.work_hours[2] - 2)

\* hours = list(range(reqs.work_hours[0], reqs.work_hours[1]))
hours(rq) == rq.work_hours[1] .. (rq.work_hours[2] - 1)

\* schedule = {day: {hour: {} for hour in hours} for day in days}
EmptySchedule(rq) == [d \in Range(days) |-> [h \in hours(rq) |-> EmptyDict]]

\* iteration order of the dict reqs.critical_minimums (insertion order)
RoleOrder(rq) == rq.role_order

-----------------------------------------------------------------------------
(* Feasibility checker *)

\* "Exceeds max weekly hours."
ExceedsMaxHours(e, shift_length, wah) ==
    wah[e.name] + shift_length > e.max_hours

\* "Already assigned on {day}."
AlreadyAssigned(e, day, ds) == day \in Range(Get(ds, e.name, <<>>))

\* "Day off."
DayOff(e, day) == day \in e.days_off

\* "Shift exceeds store hours."
ExceedsStoreHours(e, start_hour, shift_length, rq) ==
    \/ start_hour < e.availability[1]
    \/ start_hour + shift_length > rq.work_hours[2]
    \/ start_hour + shift_length > e.availability[2]

\* mutant of is_valid_assignment: the start of the availability window is
\* not compared
is_valid_assignment_any_start(e, role, day, start_hour, shift_length, wah, ds, rq) ==
    /\ ~ExceedsMaxHours(e, shift_length, wah)
    /\ ~AlreadyAssigned(e, day, ds)
    /\ ~DayOff(e, day)
    /\ ~(\/ start_hour + shift_length > rq.work_hours[2]
         \/ start_hour + shift_length > e.availability[2])

\* mutant of is_valid_assignment: a day already worked is not rejected
is_valid_assignment_same_day(e, role, day, start_hour, shift_length, wah, ds, rq) ==
    /\ ~ExceedsMaxHours(e, shift_length, wah)
    /\ ~DayOff(e, day)
    /\ ~ExceedsStoreHours(e, start_hour, shift_length, rq)

\* mutant of is_valid_assignment: the weekly maximum is not checked
is_valid_assignment_no_max(e, role, day, start_hour, shift_length, wah, ds, rq) ==
    /\ ~AlreadyAssigned(e, day, ds)
    /\ ~DayOff(e, day)
    /\ ~ExceedsStoreHours(e, start_hour, shift_length, rq)

\* mutant of is_valid_assignment: the end of the availability window is not
\* compared
is_valid_assignment_no_availability_end(e, role, day, start_hour, shift_length, wah, ds, rq) ==
    /\ ~ExceedsMaxHours(e, shift_length, wah)
    /\ ~AlreadyAssigned(e, day, ds)
    /\ ~DayOff(e, day)
    /\ ~(\/ start_hour < e.availability[1]
         \/ start_hour + shift_length > rq.work_hours[2])

is_valid_assignment(e, role, day, start_hour, shift_length, wah, ds, rq) ==
    /\ ~ExceedsMaxHours(e, shift_length, wah)
    /\ ~AlreadyAssigned(e, day, ds)
    /\ ~DayOff(e, day)
    /\ ~ExceedsStoreHours(e, start_hour, shift_length, rq)

\* len(assignments.get(role, []))
RoleCount(assignments, role) == Len(Get(assignments, role, <<>>))

\* mutant of meets_critical_minimums_for_day: everybody listed at the hour,
\* under any role, counts towards each minimum
meets_critical_minimums_for_day_any_role(sch, rq, day) ==
    \A hour \in DOMAIN sch[day] :
        \A role \in DOMAIN rq.critical_minimums :
            ~(SumOver(DOMAIN sch[day][hour],
                      [r \in DOMAIN sch[day][hour] |-> Len(sch[day][hour][r])])
                  < rq.critical_minimums[role])

\* mutant of meets_critical_minimums_for_day: `<=` in place of `<`, a role
\* staffed at exactly its minimum counts as missing
meets_critical_minimums_for_day_strict(sch, rq, day) ==
    \A hour \in DOMAIN sch[day] :
        \A role \in DOMAIN rq.critical_minimums :
            ~(RoleCount(sch[day][hour], role) <= rq.critical_minimums[role])

meets_critical_minimums_for_day(sch, rq, day) ==
    \A hour \in DOMAIN sch[day] :
        \A role \in DOMAIN rq.critical_minimums :
            ~(RoleCount(sch[day][hour], role) < rq.critical_minimums[role])

-----------------------------------------------------------------------------
(* Schedule mutator: both return the three structures they mutate *)

\* mutant of update_schedule: schedule[day][hour] = {} without the
\* `if hour not in schedule[day]` guard, so the hour's other cells are lost
update_schedule_reset_hour(e, role, day, start_hour, shift_length, sch, wah, ds) ==
    LET span == start_hour .. (start_hour + shift_length - 1)
    IN [schedule |->
            [sch EXCEPT ![day] =
                [h \in DOMAIN sch[day] \cup span |->
                    IF h \in span THEN [r \in {role} |-> <<e.name>>]
                    ELSE sch[day][h]]],
        weekly_assigned_hours |->
            [wah EXCEPT ![e.name] = wah[e.name] + shift_length],
        daily_shifts |->
            [n \in DOMAIN ds \cup {e.name} |->
                IF n = e.name THEN Append(Get(ds, e.name, <<>>), day)
                ELSE ds[n]]]

update_schedule(e, role, day, start_hour, shift_length, sch, wah, ds) ==
    LET span == start_hour .. (start_hour + shift_length - 1)
        old(h) == Get(sch[day], h, EmptyDict)
        cell(h) == [r \in DOMAIN old(h) \cup {role} |->
                        IF r = role
                        THEN Append(Get(old(h), role, <<>>), e.name)
                        ELSE old(h)[r]]
    IN [schedule |->
            [sch EXCEPT ![day] =
                [h \in DOMAIN sch[day] \cup span |->
                    IF h \in span THEN cell(h) ELSE sch[day][h]]],
        weekly_assigned_hours |->
            [wah EXCEPT ![e.name] = wah[e.name] + shift_length],
        daily_shifts |->
            [n \in DOMAIN ds \cup {e.name} |->
                IF n = e.name THEN Append(Get(ds, e.name, <<>>), day)
                ELSE ds[n]]]

\* mutant of RemoveFromCells: an emptied role list is left in place
RemoveFromCells_keep_empty(e, role, day, start_hour, shift_length, sch) ==
    LET span == start_hour .. (start_hour + shift_length - 1)
        hit(h) == /\ role \in DOMAIN sch[day][h]
                  /\ e.name \in Range(sch[day][h][role])
        cell(h) == IF ~hit(h) THEN sch[day][h]
                   ELSE [sch[day][h] EXCEPT
                            ![role] = ListRemove(sch[day][h][role], e.name)]
    IN [sch EXCEPT ![day] =
            [h \in DOMAIN sch[day] |->
                IF h \in span THEN cell(h) ELSE sch[day][h]]]

\* the schedule after the hour loop of remove_assignment; an hour without an
\* entry under schedule[day] (a KeyError in the source) is never passed
RemoveFromCells(e, role, day, start_hour, shift_length, sch) ==
    LET span == start_hour .. (start_hour + shift_length - 1)
        hit(h) == /\ role \in DOMAIN sch[day][h]
                  /\ e.name \in Range(sch[day][h][role])
        left(h) == ListRemove(sch[day][h][role], e.name)
        cell(h) == IF ~hit(h) THEN sch[day][h]
                   ELSE IF left(h) = <<>>
                   THEN [r \in DOMAIN sch[day][h] \ {role} |-> sch[day][h][r]]
                   ELSE [sch[day][h] EXCEPT ![role] = left(h)]
    IN [sch EXCEPT ![day] =
            [h \in DOMAIN sch[day] |->
                IF h \in span THEN cell(h) ELSE sch[day][h]]]

\* mutant of remove_assignment: weekly_assigned_hours is not decremented
remove_assignment_keep_hours(e, role, day, start_hour, shift_length, sch, wah, ds) ==
    [schedule |-> RemoveFromCells(e, role, day, start_hour, shift_length, sch),
     weekly_assigned_hours |-> wah,
     daily_shifts |-> [ds EXCEPT ![e.name] = ListRemove(ds[e.name], day)]]

\* mutant of remove_assignment: the day stays in daily_shifts
remove_assignment_keep_day(e, role, day, start_hour, shift_length, sch, wah, ds) ==
    [schedule |-> RemoveFromCells(e, role, day, start_hour, shift_length, sch),
     weekly_assigned_hours |->
         [wah EXCEPT ![e.name] = wah[e.name] - shift_length],
     daily_shifts |-> ds]

remove_assignment(e, role, day, start_hour, shift_length, sch, wah, ds) ==
    [schedule |-> RemoveFromCells(e, role, day, start_hour, shift_length, sch),
     weekly_assigned_hours |->
         [wah EXCEPT ![e.name] = wah[e.name] - shift_length],
     daily_shifts |-> [ds EXCEPT ![e.name] = ListRemove(ds[e.name], day)]]

-----------------------------------------------------------------------------
(* Backtracking solver: solve_schedule as an explicit call stack *)

\* mutant of available_employees: the role is not looked up in e.roles
available_employees_any_role(emps, role, day) ==
    LET eligible(e) == ~(day \in e.days_off)
    IN SelectSeq(emps, eligible)

\* available_employees[role] for the day being processed
available_employees(emps, role, day) ==
    LET eligible(e) == role \in e.roles /\ ~(day \in e.days_off)
    IN SelectSeq(emps, eligible)

\* assigned_count = len(schedule[day].get(start_hour, {}).get(role, []))
assigned_count(sch, day, start_hour, role) ==
    RoleCount(Get(sch[day], start_hour, EmptyDict), role)

\* the (hour, role) pairs at which the loops do not `continue`
Understaffed(sch, rq, day) ==
    {sl \in hours(rq) \X DOMAIN rq.critical_minimums :
        ~(assigned_count(sch, day, sl[1], sl[2]) >= rq.critical_minimums[sl[2]])}

\* the first of them in loop order: hours ascending, then roles in dict order
FirstUnderstaffed(sch, rq, day) ==
    LET U == Understaffed(sch, rq, day)
        h == CHOOSE x \in {sl[1] : sl \in U} : \A y \in {sl[1] : sl \in U} : x <= y
        i == CHOOSE j \in DOMAIN RoleOrder(rq) :
                /\ <<h, RoleOrder(rq)[j]>> \in U
                /\ \A k \in 1..(j - 1) : <<h, RoleOrder(rq)[k]>> \notin U
    IN <<h, RoleOrder(rq)[i]>>

\* a fresh call solve_schedule(..., index)
Call(index) ==
    [index |-> index, phase |-> "enter", start_hour |-> 0, role |-> "",
     ei |-> 0, shift_length |-> 0]

Top == stack[Len(stack)]

Pop == SubSeq(stack, 1, Len(stack) - 1)

SetTop(f) == [stack EXCEPT ![Len(stack)] = f]

DayOf(f) == days[f.index + 1]

\* the employee the frame's loops currently point at
Candidate(f) == available_employees(employees, f.role, DayOf(f))[f.ei]

\* mutant of Advance: only the shortest length is tried for each employee
Advance_shortest_only(f) ==
    [f EXCEPT !.ei = f.ei + 1, !.shift_length = reqs.shift_lengths[1]]

\* next iteration of `for employee ... for shift_length ...`; the range of
\* shift lengths is never empty (shift_lengths[0] <= shift_lengths[1])
Advance(f) ==
    IF f.shift_length < reqs.shift_lengths[2]
    THEN [f EXCEPT !.shift_length = f.shift_length + 1]
    ELSE [f EXCEPT !.ei = f.ei + 1, !.shift_length = reqs.shift_lengths[1]]

Running == pc = "solve" /\ stack # <<>> /\ ret = "none"

Frame == UNCHANGED <<employees, reqs, pc, bal, returned>>

State == UNCHANGED <<schedule, weekly_assigned_hours, daily_shifts>>

\* index == len(days): return all(meets_critical_minimums_for_day(...))
SolveTerminal ==
    /\ Running /\ Top.phase = "enter" /\ Top.index = Len(days)
    /\ ret' = IF \A i \in DOMAIN days :
                    meets_critical_minimums_for_day(schedule, reqs, days[i])
              THEN "true" ELSE "false"
    /\ stack' = Pop
    /\ Frame /\ State

\* the hour and role loops reach an under-staffed slot
SolveSlot ==
    /\ Running /\ Top.phase = "enter" /\ Top.index < Len(days)
    /\ Understaffed(schedule, reqs, DayOf(Top)) # {}
    /\ LET sl == FirstUnderstaffed(schedule, reqs, DayOf(Top))
       IN stack' = SetTop([Top EXCEPT !.phase = "try", !.start_hour = sl[1],
                                      !.role = sl[2], !.ei = 1,
                                      !.shift_length = reqs.shift_lengths[1]])
    /\ UNCHANGED ret
    /\ Frame /\ State

\* every slot of the day is staffed: the day's check, then the next day
SolveDayDone ==
    /\ Running /\ Top.phase = "enter" /\ Top.index < Len(days)
    /\ Understaffed(schedule, reqs, DayOf(Top)) = {}
    /\ IF ~meets_critical_minimums_for_day(schedule, reqs, DayOf(Top))
       THEN ret' = "false" /\ stack' = Pop
       ELSE /\ stack' = Append(SetTop([Top EXCEPT !.phase = "tail"]),
                               Call(Top.index + 1))
            /\ UNCHANGED ret
    /\ Frame /\ State

\* the candidate ends after closing time (`continue`) or is rejected
SolveSkip ==
    /\ Running /\ Top.phase = "try"
    /\ Top.ei <= Len(available_employees(employees, Top.role, DayOf(Top)))
    /\ Top.shift_length <= reqs.shift_lengths[2]
    /\ \/ Top.start_hour + Top.shift_length > reqs.work_hours[2]
       \/ ~is_valid_assignment(Candidate(Top), Top.role, DayOf(Top),
                               Top.start_hour, Top.shift_length,
                               weekly_assigned_hours, daily_shifts, reqs)
    /\ stack' = SetTop(Advance(Top))
    /\ UNCHANGED ret
    /\ Frame /\ State

\* the candidate is valid: update_schedule, then recurse on the same index
SolveAssign ==
    /\ Running /\ Top.phase = "try"
    /\ Top.ei <= Len(available_employees(employees, Top.role, DayOf(Top)))
    /\ Top.shift_length <= reqs.shift_lengths[2]
    /\ ~(Top.start_hour + Top.shift_length > reqs.work_hours[2])
    /\ is_valid_assignment(Candidate(Top), Top.role, DayOf(Top),
                           Top.start_hour, Top.shift_length,
                           weekly_assigned_hours, daily_shifts, reqs)
    /\ LET u == update_schedule(Candidate(Top), Top.role, DayOf(Top),
                                Top.start_hour, Top.shift_length, schedule,
                                weekly_assigned_hours, daily_shifts)
       IN /\ schedule' = u.schedule
          /\ weekly_assigned_hours' = u.weekly_assigned_hours
          /\ daily_shifts' = u.daily_shifts
    /\ stack' = Append(SetTop([Top EXCEPT !.phase = "wait"]), Call(Top.index))
    /\ UNCHANGED ret
    /\ Frame

\* mutant of SolveExhausted: the slot that found nobody is given up and the
\* search moves on to the next day instead of returning False
SolveExhausted_moves_on ==
    /\ Running /\ Top.phase = "try"
    /\ Top.ei > Len(available_employees(employees, Top.role, DayOf(Top)))
    /\ stack' = Append(SetTop([Top EXCEPT !.phase = "tail"]),
                       Call(Top.index + 1))
    /\ UNCHANGED ret
    /\ Frame /\ State

\* the employee loop ends with `assigned` still False: return False
SolveExhausted ==
    /\ Running /\ Top.phase = "try"
    /\ Top.ei > Len(available_employees(employees, Top.role, DayOf(Top)))
    /\ ret' = "false"
    /\ stack' = Pop
    /\ Frame /\ State

\* the recursive call returned True: return True
SolveReturnTrue ==
    /\ pc = "solve" /\ stack # <<>> /\ ret = "true"
    /\ Top.phase \in {"wait", "tail"}
    /\ stack' = Pop
    /\ UNCHANGED ret
    /\ Frame /\ State

\* the call for the next day returned False: return it
SolveReturnFalse ==
    /\ pc = "solve" /\ stack # <<>> /\ ret = "false"
    /\ Top.phase = "tail"
    /\ stack' = Pop
    /\ UNCHANGED ret
    /\ Frame /\ State

\* the recursive call returned False: remove_assignment, next candidate
SolveBacktrack ==
    /\ pc = "solve" /\ stack # <<>> /\ ret = "false"
    /\ Top.phase = "wait"
    /\ LET r == remove_assignment(Candidate(Top), Top.role, DayOf(Top),
                                  Top.start_hour, Top.shift_length, schedule,
                                  weekly_assigned_hours, daily_shifts)
       IN /\ schedule' = r.schedule
          /\ weekly_assigned_hours' = r.weekly_assigned_hours
          /\ daily_shifts' = r.daily_shifts
    /\ stack' = SetTop(Advance([Top EXCEPT !.phase = "try"]))
    /\ ret' = "none"
    /\ Frame

-----------------------------------------------------------------------------
(* Minimum-hours balancer: assign_extra_shifts, one action per loop step *)

\* day_counts[day] = sum(len(roles) for roles in schedule[day].values())
DayCount(sch, day) ==
    SumOver(DOMAIN sch[day],
            [h \in DOMAIN sch[day] |-> Cardinality(DOMAIN sch[day][h])])

\* sorted(schedule.keys(), key=day_counts.get): stable, keys in days order
SortedDays(dc) ==
    LET before(i, j) == dc[days[i]] < dc[days[j]]
                        \/ (dc[days[i]] = dc[days[j]] /\ i < j)
        rank(i) == 1 + Cardinality({j \in DOMAIN days : before(j, i)})
    IN [k \in DOMAIN days |-> days[CHOOSE i \in DOMAIN days : rank(i) = k]]

\* mutant of UnderMinHours: off by one, an employee one hour short of
\* min_hours is not selected
UnderMinHours_off_by_one(emps, wah) ==
    LET under(e) == wah[e.name] + 1 < e.min_hours
    IN SelectSeq(emps, under)

\* [emp for emp in employees if weekly_assigned_hours[emp.name] < emp.min_hours]
UnderMinHours(emps, wah) ==
    LET under(e) == wah[e.name] < e.min_hours
    IN SelectSeq(emps, under)

BalIdle ==
    [phase |-> "idle", under_min_hours |-> <<>>, day_counts |-> EmptyDict,
     sorted_days |-> <<>>, ui |-> 0, di |-> 0, hour |-> 0,
     required_hours |-> 0]

BalEmp == bal.under_min_hours[bal.ui]

BalDayName == bal.sorted_days[bal.di]

Inputs == UNCHANGED <<employees, reqs, stack, ret, returned>>

\* solve_schedule returned True: assign_extra_shifts starts
BalanceStart ==
    /\ pc = "solve" /\ stack = <<>> /\ ret = "true"
    /\ pc' = "balance"
    /\ LET dc == [d \in DOMAIN schedule |-> DayCount(schedule, d)]
       IN bal' = [phase |-> "employee",
                  under_min_hours |->
                      UnderMinHours(employees, weekly_assigned_hours),
                  day_counts |-> dc, sorted_days |-> SortedDays(dc),
                  ui |-> 1, di |-> 0, hour |-> 0, required_hours |-> 0]
    /\ Inputs /\ State

\* for employee in under_min_hours: required_hours = ...
BalEmployee ==
    /\ pc = "balance" /\ bal.phase = "employee"
    /\ bal.ui <= Len(bal.under_min_hours)
    /\ bal' = [bal EXCEPT !.phase = "day", !.di = 1,
                          !.required_hours =
                              BalEmp.min_hours
                              - weekly_assigned_hours[BalEmp.name]]
    /\ UNCHANGED pc /\ Inputs /\ State

\* the day loop ends (exhausted, or `break` on required_hours <= 0)
BalNextEmployee ==
    /\ pc = "balance" /\ bal.phase = "day"
    /\ bal.di > Len(bal.sorted_days) \/ bal.required_hours <= 0
    /\ bal' = [bal EXCEPT !.phase = "employee", !.ui = bal.ui + 1]
    /\ UNCHANGED pc /\ Inputs /\ State

\* `continue`: a day off, or a day the employee already works
BalSkipDay ==
    /\ pc = "balance" /\ bal.phase = "day"
    /\ bal.di <= Len(bal.sorted_days) /\ ~(bal.required_hours <= 0)
    /\ \/ BalDayName \in BalEmp.days_off
       \/ BalDayName \in Range(Get(daily_shifts, BalEmp.name, <<>>))
    /\ bal' = [bal EXCEPT !.di = bal.di + 1]
    /\ UNCHANGED pc /\ Inputs /\ State

\* mutant of BalEnterDay: the hour loop starts one hour after opening
BalEnterDay_skips_opening ==
    /\ pc = "balance" /\ bal.phase = "day"
    /\ bal.di <= Len(bal.sorted_days) /\ ~(bal.required_hours <= 0)
    /\ ~(BalDayName \in BalEmp.days_off)
    /\ ~(BalDayName \in Range(Get(daily_shifts, BalEmp.name, <<>>)))
    /\ bal' = [bal EXCEPT !.phase = "hour", !.hour = reqs.work_hours[1] + 1]
    /\ UNCHANGED pc /\ Inputs /\ State

\* for hour in range(reqs.work_hours[0], reqs.work_hours[1])
BalEnterDay ==
    /\ pc = "balance" /\ bal.phase = "day"
    /\ bal.di <= Len(bal.sorted_days) /\ ~(bal.required_hours <= 0)
    /\ ~(BalDayName \in BalEmp.days_off)
    /\ ~(BalDayName \in Range(Get(daily_shifts, BalEmp.name, <<>>)))
    /\ bal' = [bal EXCEPT !.phase = "hour", !.hour = reqs.work_hours[1]]
    /\ UNCHANGED pc /\ Inputs /\ State

\* the hour loop ends (exhausted, or `break` on required_hours <= 0)
BalLeaveDay ==
    /\ pc = "balance" /\ bal.phase = "hour"
    /\ bal.hour >= reqs.work_hours[2] \/ bal.required_hours <= 0
    /\ bal' = [bal EXCEPT !.phase = "day", !.di = bal.di + 1]
    /\ UNCHANGED pc /\ Inputs /\ State

\* the "Floater" shift of shift_lengths[0] hours is valid at this hour
BalAssign ==
    /\ pc = "balance" /\ bal.phase = "hour"
    /\ bal.hour < reqs.work_hours[2] /\ ~(bal.required_hours <= 0)
    /\ is_valid_assignment(BalEmp, Floater, BalDayName, bal.hour,
                           reqs.shift_lengths[1], weekly_assigned_hours,
                           daily_shifts, reqs)
    /\ LET u == update_schedule(BalEmp, Floater, BalDayName, bal.hour,
                                reqs.shift_lengths[1], schedule,
                                weekly_assigned_hours, daily_shifts)
       IN /\ schedule' = u.schedule
          /\ weekly_assigned_hours' = u.weekly_assigned_hours
          /\ daily_shifts' = u.daily_shifts
    /\ bal' = [bal EXCEPT !.hour = bal.hour + 1,
                          !.required_hours =
                              bal.required_hours - reqs.shift_lengths[1],
                          !.day_counts[BalDayName] =
                              bal.day_counts[BalDayName] + 1]
    /\ UNCHANGED pc /\ Inputs

\* it is not: next hour
BalReject ==
    /\ pc = "balance" /\ bal.phase = "hour"
    /\ bal.hour < reqs.work_hours[2] /\ ~(bal.required_hours <= 0)
    /\ ~is_valid_assignment(BalEmp, Floater, BalDayName, bal.hour,
                            reqs.shift_lengths[1], weekly_assigned_hours,
                            daily_shifts, reqs)
    /\ bal' = [bal EXCEPT !.hour = bal.hour + 1]
    /\ UNCHANGED pc /\ Inputs /\ State

-----------------------------------------------------------------------------
(* schedule_shifts *)

NotReturned == [status |-> "pending", schedule |-> EmptyDict]

\* Python truthiness of a dict
Truthy(d) == DOMAIN d # {}

\* mutant of ScheduleFail: `schedule = None` is forgotten and the schedule
\* object is returned
ScheduleFail_returns_schedule ==
    /\ pc = "solve" /\ stack = <<>> /\ ret = "false"
    /\ pc' = "done"
    /\ returned' = [status |-> "schedule", schedule |-> schedule]
    /\ UNCHANGED <<employees, reqs, stack, ret, bal>> /\ State

\* solve_schedule returned False: schedule = None; return None
ScheduleFail ==
    /\ pc = "solve" /\ stack = <<>> /\ ret = "false"
    /\ pc' = "done"
    /\ returned' = [status |-> "None", schedule |-> EmptyDict]
    /\ UNCHANGED <<employees, reqs, stack, ret, bal>> /\ State

\* mutant of ScheduleReturn: an employee left below min_hours turns the run
\* into a failure
ScheduleReturn_fails_under_min ==
    /\ pc = "balance" /\ bal.phase = "employee"
    /\ bal.ui > Len(bal.under_min_hours)
    /\ pc' = "done"
    /\ returned' = IF Truthy(schedule)
                      /\ UnderMinHours(employees, weekly_assigned_hours) = <<>>
                   THEN [status |-> "schedule", schedule |-> schedule]
                   ELSE [status |-> "None", schedule |-> EmptyDict]
    /\ UNCHANGED <<employees, reqs, stack, ret, bal>> /\ State

\* assign_extra_shifts is over: return schedule if schedule else None
ScheduleReturn ==
    /\ pc = "balance" /\ bal.phase = "employee"
    /\ bal.ui > Len(bal.under_min_hours)
    /\ pc' = "done"
    /\ returned' = IF Truthy(schedule)
                   THEN [status |-> "schedule", schedule |-> schedule]
                   ELSE [status |-> "None", schedule |-> EmptyDict]
    /\ UNCHANGED <<employees, reqs, stack, ret, bal>> /\ State

-----------------------------------------------------------------------------
(* Inputs: the records the parsers hand to schedule_shifts *)

Employee(name, availability, min_hours, max_hours, roles, days_off) ==
    [name |-> name, availability |-> availability, min_hours |-> min_hours,
     max_hours |-> max_hours, roles |-> roles, days_off |-> days_off]

EmployerRequirements(work_hours, shift_lengths, role_order, minimum) ==
    [work_hours |-> work_hours, shift_lengths |-> shift_lengths,
     role_order |-> role_order,
     critical_minimums |-> [r \in Range(role_order) |-> minimum[r]]]

MaxOpenHours == 3

MaxMinimum == 2

\* Ann is always first in the employee list
AnnProfiles ==
    {Employee("Ann", <<9, 17>>, hb[1], hb[2], rs, off) :
        hb \in {<<0, 14>>, <<7, 7>>},
        rs \in {{"Cashier"}, {"Cashier", "Stock"}},
        off \in {{}, {"Monday"}}}

BobProfiles ==
    {Employee("Bob", av, mn, 14, rs, off) :
        av \in {<<9, 17>>, <<10, 12>>},
        mn \in {0, 3},
        rs \in {{"Cashier"}, {"Stock"}},
        off \in {{}, {"Tuesday"}}}

Teams ==
    {<<a>> : a \in AnnProfiles}
    \cup {<<a, b>> : a \in AnnProfiles, b \in BobProfiles}

ShiftLengths == {<<1, 1>>, <<1, 2>>, <<2, 2>>}

CriticalMinimums ==
    {[role_order |-> <<"Cashier">>, minimum |-> [r \in {"Cashier"} |-> k]] :
        k \in 1..MaxMinimum}
    \cup {[role_order |-> <<"Cashier", "Stock">>,
           minimum |-> [r \in {"Cashier", "Stock"} |-> 1]]}

Requirements ==
    {EmployerRequirements(<<9, 9 + n>>, sl, cm.role_order, cm.minimum) :
        n \in 1..MaxOpenHours, sl \in ShiftLengths, cm \in CriticalMinimums}

Init ==
    /\ employees \in Teams
    /\ reqs \in Requirements
    /\ schedule = EmptySchedule(reqs)
    /\ weekly_assigned_hours = [n \in {e.name : e \in Range(employees)} |-> 0]
    /\ daily_shifts = EmptyDict
    /\ stack = <<Call(0)>>
    /\ ret = "none"
    /\ pc = "solve"
    /\ bal = BalIdle
    /\ returned = NotReturned

Next ==
    \/ SolveTerminal
    \/ SolveSlot
    \/ SolveDayDone
    \/ SolveSkip
    \/ SolveAssign
    \/ SolveExhausted
    \/ SolveReturnTrue
    \/ SolveReturnFalse
    \/ SolveBacktrack
    \/ BalanceStart
    \/ BalEmployee
    \/ BalNextEmployee
    \/ BalSkipDay
    \/ BalEnterDay
    \/ BalLeaveDay
    \/ BalAssign
    \/ BalReject
    \/ ScheduleFail
    \/ ScheduleReturn

Spec == Init /\ [][Next]_vars

\* the program keeps running: it is single-threaded and no step waits on
\* anything, so a step that can be taken is taken
SpecLive == Init /\ [][Next]_vars /\ WF_vars(Next)

\* the same program on fewer inputs: two employees, Ann without a minimum,
\* Bob available all day but off on Tuesday, below his minimum until the
\* Balancer runs, shifts of one or two hours
InitRoundTrip ==
    /\ Init
    /\ Len(employees) = 2
    /\ employees[1].min_hours = 0 /\ employees[1].max_hours = 14
    /\ employees[2].min_hours = 3 /\ employees[2].availability = <<9, 17>>
    /\ employees[2].days_off = {"Tuesday"}
    /\ reqs.shift_lengths = <<1, 2>>

SpecRoundTrip == InitRoundTrip /\ [][Next]_vars

\* the same program with a third employee: Carl holds only "Stock" and has a
\* minimum of three hours, so two employees can be below min_hours at once
ThreeTeams ==
    {<<Employee("Ann", <<9, 17>>, 0, 14, {"Cashier"}, off), b,
       Employee("Carl", <<9, 17>>, 3, 14, {"Stock"}, {})>> :
        off \in {{}, {"Monday"}}, b \in BobProfiles}

InitThree ==
    /\ employees \in ThreeTeams
    /\ reqs \in Requirements
    /\ schedule = EmptySchedule(reqs)
    /\ weekly_assigned_hours = [n \in {e.name : e \in Range(employees)} |-> 0]
    /\ daily_shifts = EmptyDict
    /\ stack = <<Call(0)>>
    /\ ret = "none"
    /\ pc = "solve"
    /\ bal = BalIdle
    /\ returned = NotReturned

SpecThree == InitThree /\ [][Next]_vars

-----------------------------------------------------------------------------
(* The feasibility checker called on its own *)

\* is_valid_assignment applied to the arguments of call a
is_valid_call(e, a, wah, ds, rq) ==
    is_valid_assignment(e, a.role, a.day, a.start_hour, a.shift_length,
                        wah, ds, rq)

\* one employee, one requirements record and the two aggregates, as a caller
\* may hand them to is_valid_assignment
InitValid ==
    /\ employees \in
          {<<Employee("Ann", av, 0, mx, {"Cashier"}, off)>> :
              av \in {<<9, 12>>, <<10, 11>>}, mx \in {1, 2},
              off \in {{}, {"Monday"}}}
    /\ reqs \in {EmployerRequirements(wh, <<1, 2>>, <<"Cashier">>,
                                       [r \in {"Cashier"} |-> 1]) :
                     wh \in {<<9, 11>>, <<9, 12>>}}
    /\ schedule = EmptySchedule(reqs)
    /\ weekly_assigned_hours \in [{"Ann"} -> 0..1]
    /\ daily_shifts \in {EmptyDict} \cup [{"Ann"} -> {<<>>, <<"Monday">>,
                                                       <<"Tuesday">>}]
    /\ stack = <<>>
    /\ ret = "none"
    /\ pc = "unit"
    /\ bal = BalIdle
    /\ returned = NotReturned

\* a call is_valid_assignment(employee, role, day, start_hour, shift_length,
\* weekly_assigned_hours, daily_shifts, reqs); stack holds the arguments and
\* ret the value returned
CallIsValidAssignment ==
    /\ pc = "unit"
    /\ \E role \in {"Cashier", Floater} : \E day \in {"Monday", "Tuesday"} :
          \E start_hour \in 9..11 : \E shift_length \in 1..2 :
              LET a == [role |-> role, day |-> day, start_hour |-> start_hour,
                        shift_length |-> shift_length]
              IN /\ stack' = <<a>>
                 /\ ret' = IF is_valid_call(employees[1], a,
                                            weekly_assigned_hours,
                                            daily_shifts, reqs)
                           THEN "true" ELSE "false"
    /\ Frame /\ State

SpecValid == InitValid /\ [][CallIsValidAssignment]_vars

\* the role cells an hour may hold when the day check is called on its own
HourCells ==
    {EmptyDict,
     [r \in {"Cashier"} |-> <<"Ann">>],
     [r \in {"Cashier"} |-> <<"Ann", "Bob">>],
     [r \in {Floater} |-> <<"Ann", "Bob">>],
     [r \in {"Cashier", Floater} |->
         IF r = "Cashier" THEN <<"Ann">> ELSE <<"Bob">>],
     [r \in {"Stock"} |-> <<"Bob">>],
     [r \in {"Cashier", "Stock"} |->
         IF r = "Cashier" THEN <<"Ann">> ELSE <<"Bob">>]}

\* a schedule whose Monday records no hour, one hour or two hours, each with
\* any of the cells above, and whose other days are empty
InitMeets ==
    /\ employees = <<Employee("Ann", <<9, 17>>, 0, 14, {"Cashier"}, {}),
                     Employee("Bob", <<9, 17>>, 0, 14, {"Stock"}, {})>>
    /\ reqs \in {EmployerRequirements(<<9, 11>>, <<1, 2>>, cm.role_order,
                                       cm.minimum) : cm \in CriticalMinimums}
    /\ \E H \in {{}, {9}, {9, 10}} : \E monday \in [H -> HourCells] :
          schedule = [EmptySchedule(reqs) EXCEPT !["Monday"] = monday]
    /\ weekly_assigned_hours = [n \in {"Ann", "Bob"} |-> 0]
    /\ daily_shifts = EmptyDict
    /\ stack = <<>>
    /\ ret = "none"
    /\ pc = "unit"
    /\ bal = BalIdle
    /\ returned = NotReturned

\* a call meets_critical_minimums_for_day(schedule, reqs, day); stack holds
\* the argument and ret the value returned
CallMeetsCriticalMinimums ==
    /\ pc = "unit"
    /\ \E day \in {"Monday", "Tuesday"} :
          /\ stack' = <<[day |-> day]>>
          /\ ret' = IF meets_critical_minimums_for_day(schedule, reqs, day)
                    THEN "true" ELSE "false"
    /\ Frame /\ State

SpecMeets == InitMeets /\ [][CallMeetsCriticalMinimums]_vars

-----------------------------------------------------------------------------
(* What the schedule records, read back from the schedule itself *)

Names == {e.name : e \in Range(employees)}

EmployeeNamed(n) == CHOOSE e \in Range(employees) : e.name = n

\* the open hours [work_hours.start, work_hours.end)
OpenHours == reqs.work_hours[1] .. (reqs.work_hours[2] - 1)

\* number of times n is listed in a cell
Listed(n, cell) == Cardinality({i \in DOMAIN cell : cell[i] = n})

\* the (hour, role) cells of day d of schedule sch that list n
CellsOf(sch, n, d) ==
    {c \in UNION {{<<h, r>> : r \in DOMAIN sch[d][h]} : h \in DOMAIN sch[d]} :
        n \in Range(sch[d][c[1]][c[2]])}

HoursOf(sch, n, d) == {c[1] : c \in CellsOf(sch, n, d)}

\* total number of hour entries of n over the week
HoursRecorded(sch, n) ==
    SumOver(Range(days),
            [d \in Range(days) |->
                SumOver(CellsOf(sch, n, d),
                        [c \in CellsOf(sch, n, d) |->
                            Listed(n, sch[d][c[1]][c[2]])])])

SolverReturned == stack = <<>> /\ ret # "none"

SolverSucceeded == stack = <<>> /\ ret = "true"

HasFloater(sch) ==
    \E d \in DOMAIN sch : \E h \in DOMAIN sch[d] : Floater \in DOMAIN sch[d][h]

MinimumsMet(sch) ==
    \A d \in Range(days) : \A h \in OpenHours :
        \A r \in DOMAIN reqs.critical_minimums :
            /\ h \in DOMAIN sch[d]
            /\ r \in DOMAIN sch[d][h]
            /\ Len(sch[d][h][r]) >= reqs.critical_minimums[r]

-----------------------------------------------------------------------------
(* Claims *)

\* C1: whenever the top-level solve_schedule call has returned True, and
\* still while and after assign_extra_shifts runs, every day, every open hour
\* and every critical role has at least critical_minimums[role] employees
\* listed in schedule[day][hour][role].
C1_CriticalMinimumsMet == SolverSucceeded => MinimumsMet(schedule)

\* C1 witness: a successful run has finished and the Balancer added a shift
C1_Witness ==
    /\ pc = "done" /\ SolverSucceeded /\ HasFloater(schedule)
    /\ MinimumsMet(schedule)

\* the shift of n on day d: first hour and the hour after the last
ShiftStart(sch, n, d) ==
    CHOOSE h \in HoursOf(sch, n, d) : \A k \in HoursOf(sch, n, d) : h <= k

ShiftEnd(sch, n, d) ==
    1 + CHOOSE h \in HoursOf(sch, n, d) : \A k \in HoursOf(sch, n, d) : h >= k

ShiftLegal(sch, n, d) ==
    LET e == EmployeeNamed(n)
    IN /\ ShiftStart(sch, n, d) >= e.availability[1]
       /\ ShiftEnd(sch, n, d) <= e.availability[2]
       /\ ShiftEnd(sch, n, d) <= reqs.work_hours[2]
       /\ d \notin e.days_off

\* C2: in every schedule schedule_shifts returns as success, every shift
\* starts at or after the employee's availability start, ends at or before
\* the availability end and closing time, is on no day off, and the
\* employee's weekly total does not exceed max_hours.
C2_ReturnedShiftsLegal ==
    returned.status = "schedule" =>
        \A n \in Names :
            /\ \A d \in Range(days) :
                   HoursOf(returned.schedule, n, d) # {} =>
                       ShiftLegal(returned.schedule, n, d)
            /\ HoursRecorded(returned.schedule, n) <= EmployeeNamed(n).max_hours

\* C2 witness: a returned schedule in which one employee holds both a
\* solver shift and a filler shift
C2_Witness ==
    /\ returned.status = "schedule"
    /\ \E n \in Names : \E d1, d2 \in Range(days) :
          /\ \E c \in CellsOf(returned.schedule, n, d1) : c[2] = Floater
          /\ \E c \in CellsOf(returned.schedule, n, d2) : c[2] # Floater

CellLegal(n, d, h, r) ==
    /\ r \in EmployeeNamed(n).roles
    /\ d \notin EmployeeNamed(n).days_off
    /\ h \in OpenHours

\* C3 as stated: in every state, every employee listed in a cell holds the
\* cell's role, is not on a day off that day, and the hour is an open hour.
C3_Original ==
    \A n \in Names : \A d \in Range(days) :
        \A c \in CellsOf(schedule, n, d) : CellLegal(n, d, c[1], c[2])

\* C3 amended: the same for every cell whose role label is not "Floater";
\* in a "Floater" cell the day-off and open-hour parts still hold.
C3_CellsLegal ==
    \A n \in Names : \A d \in Range(days) :
        \A c \in CellsOf(schedule, n, d) :
            /\ c[2] # Floater => CellLegal(n, d, c[1], c[2])
            /\ d \notin EmployeeNamed(n).days_off
            /\ c[1] \in OpenHours

\* C3 witness: the Balancer has added a filler shift next to solver shifts
C3_Witness ==
    /\ pc = "balance" /\ HasFloater(schedule)
    /\ \E n \in Names : \E d \in Range(days) :
          \E c \in CellsOf(schedule, n, d) : c[2] = "Cashier"

\* hours of one shift: contiguous
Contiguous(H) == \A h \in H : \A k \in H : \A m \in h..k : m \in H

\* C4: in every state each employee holds at most one shift per day: the
\* hours listing the employee on a day are one contiguous block under one
\* role, each cell lists the employee at most once, and daily_shifts lists
\* each day at most once (so no filler shift lands on an already worked day).
C4_OneShiftPerDay ==
    \A n \in Names :
        /\ \A d \in Range(days) :
              /\ Contiguous(HoursOf(schedule, n, d))
              /\ Cardinality({c[2] : c \in CellsOf(schedule, n, d)}) <= 1
              /\ \A c \in CellsOf(schedule, n, d) :
                     Listed(n, schedule[d][c[1]][c[2]]) = 1
        /\ \A i, j \in DOMAIN Get(daily_shifts, n, <<>>) :
              daily_shifts[n][i] = daily_shifts[n][j] => i = j

\* C4 witness: the Balancer runs and an employee who works a two-hour solver
\* shift on one day holds a filler shift on another
C4_Witness ==
    /\ pc = "balance"
    /\ \E n \in Names : \E d1, d2 \in Range(days) :
          /\ Cardinality(HoursOf(schedule, n, d1)) = 2
          /\ \E c \in CellsOf(schedule, n, d2) : c[2] = Floater

\* C5: after any sequence of update_schedule and remove_assignment calls the
\* run makes, weekly_assigned_hours[e] equals the hours recorded for e in the
\* schedule and daily_shifts[e] holds exactly the days on which e appears.
C5_AggregatesConsistent ==
    \A n \in Names :
        /\ weekly_assigned_hours[n] = HoursRecorded(schedule, n)
        /\ Range(Get(daily_shifts, n, <<>>))
               = {d \in Range(days) : HoursOf(schedule, n, d) # {}}

\* C5 witness: one employee's shift has been removed again while another
\* employee's two-hour shift is in place
C5_Witness ==
    /\ pc = "solve"
    /\ \E n \in DOMAIN daily_shifts : daily_shifts[n] = <<>>
    /\ \E m \in Names : \E d \in Range(days) :
          Cardinality(HoursOf(schedule, m, d)) = 2

\* update_schedule followed by remove_assignment with the same arguments
RoundTrip(e, role, day, start_hour, shift_length) ==
    LET u == update_schedule(e, role, day, start_hour, shift_length, schedule,
                             weekly_assigned_hours, daily_shifts)
    IN remove_assignment(e, role, day, start_hour, shift_length, u.schedule,
                         u.weekly_assigned_hours, u.daily_shifts)

\* argument tuples tried in every state; start hours include closing time,
\* an hour the schedule has no entry for
RoundTripArgs ==
    Range(employees) \X {"Cashier", "Stock", Floater} \X Range(days)
        \X (reqs.work_hours[1] .. reqs.work_hours[2]) \X (1..2)

NoEmptyCell(sch) ==
    \A d \in DOMAIN sch : \A h \in DOMAIN sch[d] :
        \A r \in DOMAIN sch[d][h] : sch[d][h][r] # <<>>

\* C6 as stated: for every state and every argument tuple, update_schedule
\* then remove_assignment leaves schedule, weekly_assigned_hours and
\* daily_shifts equal to their values before the update.
C6_Original ==
    \A a \in RoundTripArgs :
        LET rt == RoundTrip(a[1], a[2], a[3], a[4], a[5])
        IN /\ rt.schedule = schedule
           /\ rt.weekly_assigned_hours = weekly_assigned_hours
           /\ rt.daily_shifts = daily_shifts

\* C6 amended: for every state of a run and every argument tuple whose day
\* is not yet in daily_shifts[employee] and whose hours all have an entry
\* under schedule[day], the round trip restores the schedule exactly (cells,
\* order, no empty role cell) and weekly_assigned_hours exactly, and restores
\* daily_shifts up to an empty list left behind for an employee who had no
\* entry.
C6_RoundTrip ==
    \A a \in RoundTripArgs :
        LET rt == RoundTrip(a[1], a[2], a[3], a[4], a[5])
        IN (/\ a[3] \notin Range(Get(daily_shifts, a[1].name, <<>>))
            /\ \A h \in a[4] .. (a[4] + a[5] - 1) : h \in DOMAIN schedule[a[3]])
           => /\ rt.schedule = schedule
              /\ NoEmptyCell(rt.schedule)
              /\ rt.weekly_assigned_hours = weekly_assigned_hours
              /\ \A n \in Names :
                    Get(rt.daily_shifts, n, <<>>) = Get(daily_shifts, n, <<>>)

\* C6 witness: a cell already lists one employee and another employee, who
\* already has an entry in daily_shifts, is free that day, so a round trip
\* into that cell is among the tuples checked
C6_Witness ==
    \E a \in RoundTripArgs :
        /\ a[1].name \in DOMAIN daily_shifts
        /\ daily_shifts[a[1].name] # <<>>
        /\ a[3] \notin Range(daily_shifts[a[1].name])
        /\ a[4] \in DOMAIN schedule[a[3]]
        /\ a[2] \in DOMAIN schedule[a[3]][a[4]]
        /\ a[5] = 1

\* employees who could be listed under role r at hour h of day d
EligibleAt(r, d, h) ==
    {e \in Range(employees) :
        /\ r \in e.roles /\ d \notin e.days_off
        /\ e.availability[1] <= h /\ h < e.availability[2]}

\* hours e can work in a week: open hours of the days not off, inside the
\* availability window, capped by max_hours
HoursOffered(e) ==
    LET perDay == Cardinality({h \in OpenHours : e.availability[1] <= h
                                                  /\ h < e.availability[2]})
        onDays == Cardinality({d \in Range(days) : d \notin e.days_off})
    IN IF perDay * onDays <= e.max_hours THEN perDay * onDays
       ELSE e.max_hours

RoleHoursOffered(r) ==
    LET holders == {e \in Range(employees) : r \in e.roles}
    IN SumOver(holders, [e \in holders |-> HoursOffered(e)])

RoleHoursDemanded(r) ==
    reqs.critical_minimums[r] * Len(days) * Cardinality(OpenHours)

\* the employee set cannot supply a critical role: too few role-hours over the
\* week, or too few eligible employees at some open hour of some day
CannotSupply ==
    \E r \in DOMAIN reqs.critical_minimums :
        \/ RoleHoursOffered(r) < RoleHoursDemanded(r)
        \/ \E d \in Range(days) : \E h \in OpenHours :
              Cardinality(EligibleAt(r, d, h)) < reqs.critical_minimums[r]

\* C7: if the employees cannot supply enough role-hours for some critical
\* role, the top-level solve_schedule call returns False; and it never returns
\* True with some open hour of some day below a critical minimum.
C7_ShortSupplyReported ==
    SolverReturned =>
        /\ CannotSupply => ret = "false"
        /\ ret = "true" => MinimumsMet(schedule)

\* C7 witness (Scenario B): the only employee has Monday off and the solver
\* has returned False
C7_Witness ==
    /\ SolverReturned /\ ret = "false" /\ CannotSupply
    /\ Len(employees) = 1 /\ employees[1].days_off = {"Monday"}
    /\ reqs.work_hours = <<9, 10>> /\ reqs.shift_lengths = <<1, 1>>

\* what an employee may do on a day in a feasible schedule: nothing, or one
\* contiguous shift in a role the employee holds
NoShift == [role |-> "", start |-> 0, len |-> 0]

DayOptions(e, d) ==
    {NoShift} \cup
    {[role |-> r, start |-> st, len |-> ln] :
        r \in e.roles \cap DOMAIN reqs.critical_minimums,
        st \in {h \in OpenHours : h >= e.availability[1] /\ d \notin e.days_off},
        ln \in reqs.shift_lengths[1] .. reqs.shift_lengths[2]}

Fits(e, o) ==
    o = NoShift \/ (/\ o.start + o.len <= reqs.work_hours[2]
                    /\ o.start + o.len <= e.availability[2])

\* the plans for day d that meet every critical minimum at every open hour
DayPlans(d) ==
    {p \in [Names -> UNION {DayOptions(e, d) : e \in Range(employees)}] :
        /\ \A n \in Names : /\ p[n] \in DayOptions(EmployeeNamed(n), d)
                            /\ Fits(EmployeeNamed(n), p[n])
        /\ \A h \in OpenHours : \A r \in DOMAIN reqs.critical_minimums :
              Cardinality({n \in Names : /\ p[n].role = r
                                         /\ p[n].start <= h
                                         /\ h < p[n].start + p[n].len})
                  >= reqs.critical_minimums[r]}

\* hours per employee that the plans of the first k days can add up to,
\* within each employee's max_hours
RECURSIVE WeekUsages(_)
WeekUsages(k) ==
    IF k = 0 THEN {[n \in Names |-> 0]}
    ELSE {u \in {[n \in Names |-> a[n] + p[n].len] :
                    a \in WeekUsages(k - 1), p \in DayPlans(days[k])} :
            \A n \in Names : u[n] <= EmployeeNamed(n).max_hours}

FeasibleScheduleExists == WeekUsages(Len(days)) # {}

\* C8: if the top-level solve_schedule call returns False, no feasible
\* schedule exists for the inputs (one contiguous shift per employee and day,
\* of a length within shift_lengths, in a role held, inside work hours and
\* availability, on no day off, weekly total within max_hours, every
\* critical minimum met in every open hour of every day).
C8_FailureMeansInfeasible ==
    (SolverReturned /\ ret = "false") => ~FeasibleScheduleExists

\* C9: schedule_shifts returns None exactly when the top-level solve_schedule
\* call returned False and otherwise the populated schedule;
\* assign_extra_shifts runs only after solve_schedule returned True.
C9_NoneIffSolverFailed ==
    /\ pc = "balance" => SolverSucceeded
    /\ bal # BalIdle => SolverSucceeded
    /\ pc = "done" =>
          /\ SolverReturned
          /\ returned.status = "None" <=> ret = "false"
          /\ returned.status = "schedule" <=> ret = "true"
          /\ ret = "true" => /\ returned.schedule = schedule
                             /\ MinimumsMet(returned.schedule)

\* C9 witness: the search backtracked, failed, and None was returned
C9_Witness ==
    /\ pc = "done" /\ returned.status = "None" /\ ret = "false"
    /\ daily_shifts # EmptyDict /\ bal = BalIdle

\* every entry of schedule is still in the same cell of schedule', in the
\* same relative order
EntriesKept ==
    \A d \in DOMAIN schedule :
        /\ d \in DOMAIN schedule'
        /\ \A h \in DOMAIN schedule[d] :
              /\ h \in DOMAIN schedule'[d]
              /\ \A r \in DOMAIN schedule[d][h] :
                    /\ r \in DOMAIN schedule'[d][h]
                    /\ IsSubseq(schedule[d][h][r], schedule'[d][h][r])

AggregatesKept ==
    /\ \A n \in Names : weekly_assigned_hours'[n] >= weekly_assigned_hours[n]
    /\ \A n \in DOMAIN daily_shifts :
          /\ n \in DOMAIN daily_shifts'
          /\ Range(daily_shifts[n]) \subseteq Range(daily_shifts'[n])

\* C10: assign_extra_shifts only adds: each of its steps keeps every schedule
\* entry in its cell and relative order, lowers no weekly_assigned_hours value
\* and removes no day from daily_shifts.
C10_BalancerOnlyAdds ==
    [][pc = "balance" => EntriesKept /\ AggregatesKept]_vars

\* C10 witness: the Balancer has added a filler shift to an hour that also
\* holds a solver cell
C10_Witness ==
    /\ pc = "balance"
    /\ \E d \in DOMAIN schedule : \E h \in DOMAIN schedule[d] :
          /\ Floater \in DOMAIN schedule[d][h]
          /\ "Cashier" \in DOMAIN schedule[d][h]

\* the inputs of Scenario A: one critical role, one open hour, one-hour
\* shifts, one employee who can work it every day
ScenarioA ==
    /\ Len(employees) = 1
    /\ "Cashier" \in employees[1].roles
    /\ employees[1].availability = <<9, 17>>
    /\ employees[1].days_off = {}
    /\ employees[1].max_hours >= 7
    /\ DOMAIN reqs.critical_minimums = {"Cashier"}
    /\ reqs.critical_minimums["Cashier"] = 1
    /\ reqs.work_hours = <<9, 10>>
    /\ reqs.shift_lengths = <<1, 1>>

\* C11: on the inputs of Scenario A the run does not fail, and the schedule
\* it returns has, on each of the seven days, exactly the one employee under
\* Cashier at hour 9 and nothing else; weekly_assigned_hours is 7.
C11_ScenarioA ==
    (ScenarioA /\ pc = "done") =>
        /\ returned.status = "schedule"
        /\ \A d \in Range(days) :
              returned.schedule[d]
                  = [h \in {9} |-> [r \in {"Cashier"} |-> <<employees[1].name>>]]
        /\ weekly_assigned_hours[employees[1].name] = 7

\* C11 witness: the run on Scenario A's inputs has returned, the employee's
\* weekly maximum being exactly the seven hours consumed
C11_Witness ==
    /\ ScenarioA /\ pc = "done" /\ returned.status = "schedule"
    /\ employees[1].max_hours = 7
    /\ weekly_assigned_hours[employees[1].name] = 7

\* the days on which n holds a filler shift, and those on which n holds a
\* shift the solver gave
FloaterDays(sch, n) ==
    {d \in Range(days) : \E c \in CellsOf(sch, n, d) : c[2] = Floater}

SolverDays(sch, n) ==
    {d \in Range(days) : \E c \in CellsOf(sch, n, d) : c[2] # Floater}

\* the schedule the solver handed over: sch without its "Floater" cells
WithoutFloater(sch) ==
    [d \in DOMAIN sch |->
        [h \in DOMAIN sch[d] |->
            [r \in DOMAIN sch[d][h] \ {Floater} |-> sch[d][h][r]]]]

\* hours the solver gave n
SolverHours(sch, n) == HoursRecorded(WithoutFloater(sch), n)

\* d1 is ranked before d2 by staffed slots of schedule sch, ties by calendar
RankedBefore(sch, d1, d2) ==
    LET pos(d) == CHOOSE i \in DOMAIN days : days[i] = d
    IN \/ DayCount(sch, d1) < DayCount(sch, d2)
       \/ DayCount(sch, d1) = DayCount(sch, d2) /\ pos(d1) < pos(d2)

\* a filler shift for e at hour h of day d is valid against the aggregates the
\* solver handed over
ValidBefore(e, d, h) ==
    LET inSolver(x) == x \in SolverDays(schedule, e.name)
    IN is_valid_assignment(e, Floater, d, h, reqs.shift_lengths[1],
           [n \in Names |-> SolverHours(schedule, n)],
           [n \in {e.name} |-> SelectSeq(days, inSolver)], reqs)

\* the employees the solver left below min_hours
LeftUnder ==
    {e \in Range(employees) : SolverHours(schedule, e.name) < e.min_hours}

OneShiftADay(n) ==
    \A d \in Range(days) :
        /\ Contiguous(HoursOf(schedule, n, d))
        /\ Cardinality({c[2] : c \in CellsOf(schedule, n, d)}) <= 1

BalancerKeysPresent ==
    /\ \A e \in Range(employees) : e.name \in DOMAIN weekly_assigned_hours
    /\ DOMAIN schedule = Range(days)
    /\ DOMAIN bal.day_counts = DOMAIN schedule
    /\ Range(bal.sorted_days) = DOMAIN schedule

\* C13: no step of assign_extra_shifts touches a cell the solver filled or
\* subscripts a missing key, and when it is over schedule_shifts returns the
\* schedule, not None, also when some employee is still below min_hours.
C13_UnderMinNotFatal ==
    [][/\ pc = "balance" =>
              /\ BalancerKeysPresent
              /\ WithoutFloater(schedule') = WithoutFloater(schedule)
       /\ (pc = "balance" /\ pc' = "done") =>
              /\ returned'.status = "schedule"
              /\ returned'.schedule = schedule
              /\ MinimumsMet(WithoutFloater(returned'.schedule))]_vars

\* C13 witness: the schedule was returned with a filler shift in it although
\* an employee is still below min_hours
C13_Witness ==
    /\ pc = "done" /\ returned.status = "schedule"
    /\ HasFloater(returned.schedule)
    /\ \E e \in Range(employees) :
          weekly_assigned_hours[e.name] < e.min_hours

\* C14: an employee who received a filler shift is not above min_hours: the
\* Balancer assigns no filler shift when the remaining required hours are
\* less than shift_lengths.min, so it never raises weekly hours past
\* min_hours.
C14_NoFillerPastMinimum ==
    \A e \in Range(employees) :
        FloaterDays(schedule, e.name) # {} =>
            weekly_assigned_hours[e.name] <= e.min_hours

\* the employees who work on day d
StaffOn(sch, d) == {n \in Names : HoursOf(sch, n, d) # {}}

\* C15: once assign_extra_shifts has finished, no day is staffed by fewer
\* than half as many employees as any other day.
C15_DaysBalanced ==
    pc = "done" /\ ret = "true" =>
        \A d1, d2 \in Range(days) :
            2 * Cardinality(StaffOn(schedule, d1))
                >= Cardinality(StaffOn(schedule, d2))

\* the structures as the calls stack[1..k] must have them if every assignment
\* of a call that is no longer waiting on it has been undone: the empty
\* schedule with the update_schedule of each call still waiting on its
\* recursive call applied in call order
RECURSIVE Replay(_)
Replay(k) ==
    IF k = 0
    THEN [schedule |-> EmptySchedule(reqs),
          weekly_assigned_hours |-> [n \in Names |-> 0],
          daily_shifts |-> EmptyDict]
    ELSE LET prev == Replay(k - 1)
             f == stack[k]
         IN IF f.phase = "wait"
            THEN update_schedule(Candidate(f), f.role, DayOf(f), f.start_hour,
                                 f.shift_length, prev.schedule,
                                 prev.weekly_assigned_hours, prev.daily_shifts)
            ELSE prev

SameStructures(r) ==
    /\ schedule = r.schedule
    /\ weekly_assigned_hours = r.weekly_assigned_hours
    /\ \A n \in Names :
          Range(Get(daily_shifts, n, <<>>)) = Range(Get(r.daily_shifts, n, <<>>))

\* C16: while the search has not succeeded, schedule, weekly_assigned_hours
\* and daily_shifts (as sets of days) hold exactly the assignments of the
\* calls still waiting on their recursive call, in call order.  A call is
\* entered and returns False above the same waiting calls, so it returns
\* False with the three structures as they were when it was entered, each of
\* its own assignments undone, the last applied first.
C16_FalseCallRestores ==
    (pc = "solve" /\ ret # "true") => SameStructures(Replay(Len(stack)))

\* C16 witness: a call two assignments deep, on a later day of the week, has
\* just returned False
C16_Witness ==
    /\ pc = "solve" /\ ret = "false" /\ stack # <<>>
    /\ Top.phase = "wait" /\ Top.index > 0
    /\ Cardinality({k \in DOMAIN stack : stack[k].phase = "wait"}) >= 3

\* every critical role of every open hour of day d is staffed to its minimum
DayStaffed(sch, d) ==
    \A h \in OpenHours : \A r \in DOMAIN reqs.critical_minimums :
        /\ h \in DOMAIN sch[d]
        /\ r \in DOMAIN sch[d][h]
        /\ Len(sch[d][h][r]) >= reqs.critical_minimums[r]

\* C17: while a solve_schedule call with index i is the active one, the
\* terminal call included, every day before days[i] meets its critical
\* minimums and no step changes the schedule of such a day; and whenever a
\* call returns True every day of the week meets them.
C17_DaysClosedInOrder ==
    [][(pc = "solve" /\ stack # <<>>) =>
          /\ \A j \in DOMAIN days :
                 j <= Top.index =>
                     /\ DayStaffed(schedule, days[j])
                     /\ schedule'[days[j]] = schedule[days[j]]
          /\ ret' = "true" => \A j \in DOMAIN days : DayStaffed(schedule', days[j])
      ]_vars

\* C17 witness: the call for Wednesday is undoing an assignment while Monday
\* and Tuesday stay staffed
C17_Witness ==
    /\ pc = "solve" /\ stack # <<>> /\ ret = "false"
    /\ Top.index = 2 /\ Top.phase = "wait"
    /\ DayStaffed(schedule, "Monday") /\ DayStaffed(schedule, "Tuesday")

\* position of role r in critical_minimums order
RolePos(r) == CHOOSE i \in DOMAIN RoleOrder(reqs) : RoleOrder(reqs)[i] = r

\* slot (h1, r1) comes before slot (h2, r2): hours ascending, then roles in
\* critical_minimums order
SlotBefore(h1, r1, h2, r2) ==
    h1 < h2 \/ (h1 = h2 /\ RolePos(r1) < RolePos(r2))

SlotShort(sch, d, h, r) ==
    RoleCount(Get(sch[d], h, EmptyDict), r) < reqs.critical_minimums[r]

\* (h, r) is the first under-staffed slot of day d
FirstShortSlot(sch, d, h, r) ==
    /\ h \in OpenHours /\ r \in DOMAIN reqs.critical_minimums
    /\ SlotShort(sch, d, h, r)
    /\ \A h2 \in OpenHours : \A r2 \in DOMAIN reqs.critical_minimums :
          SlotBefore(h2, r2, h, r) => ~SlotShort(sch, d, h2, r2)

\* the employees who hold role r and are not off on day d, in input order
EligibleInOrder(r, d) ==
    LET ok(e) == r \in e.roles /\ d \notin e.days_off
    IN SelectSeq(employees, ok)

\* g points at the (employee, length) pair right after the one f points at:
\* the next length, or the next employee with the shortest length
NextPair(f, g) ==
    /\ g.start_hour = f.start_hour /\ g.role = f.role /\ g.index = f.index
    /\ IF f.shift_length < reqs.shift_lengths[2]
       THEN g.ei = f.ei /\ g.shift_length = f.shift_length + 1
       ELSE g.ei = f.ei + 1 /\ g.shift_length = reqs.shift_lengths[1]

\* the pair f points at passes is_valid_assignment
PairValid(f) ==
    /\ f.ei <= Len(EligibleInOrder(f.role, DayOf(f)))
    /\ f.start_hour + f.shift_length <= reqs.work_hours[2]
    /\ is_valid_assignment(EligibleInOrder(f.role, DayOf(f))[f.ei], f.role,
                           DayOf(f), f.start_hour, f.shift_length,
                           weekly_assigned_hours, daily_shifts, reqs)

\* the step appended the employee of the pair f points at to the role's cell
\* of each hour of the shift, starting at the slot's hour
PairApplied(f) ==
    \A h \in f.start_hour .. (f.start_hour + f.shift_length - 1) :
        /\ h \in DOMAIN schedule'[DayOf(f)]
        /\ f.role \in DOMAIN schedule'[DayOf(f)][h]
        /\ schedule'[DayOf(f)][h][f.role]
              = Append(Get(Get(schedule[DayOf(f)], h, EmptyDict), f.role, <<>>),
                       EligibleInOrder(f.role, DayOf(f))[f.ei].name)

\* number of steps the program can take from the current state
StepsEnabled ==
    (IF ENABLED SolveTerminal THEN 1 ELSE 0)
    + (IF ENABLED SolveSlot THEN 1 ELSE 0)
    + (IF ENABLED SolveDayDone THEN 1 ELSE 0)
    + (IF ENABLED SolveSkip THEN 1 ELSE 0)
    + (IF ENABLED SolveAssign THEN 1 ELSE 0)
    + (IF ENABLED SolveExhausted THEN 1 ELSE 0)
    + (IF ENABLED SolveReturnTrue THEN 1 ELSE 0)
    + (IF ENABLED SolveReturnFalse THEN 1 ELSE 0)
    + (IF ENABLED SolveBacktrack THEN 1 ELSE 0)
    + (IF ENABLED BalanceStart THEN 1 ELSE 0)
    + (IF ENABLED ScheduleFail THEN 1 ELSE 0)

\* C18: the search order is fixed by the inputs.  A call starts on the first
\* under-staffed slot of its day (hours ascending, roles in critical_minimums
\* order) with the first eligible employee in input order and the shortest
\* length; it moves from one (employee, length) pair to the next one only,
\* either because the pair was rejected or because it was applied and the
\* recursive call returned False; a pair is applied only if valid, as a shift
\* that starts at the slot's hour; once a call returns True nothing is
\* changed any more; and no state of the search has two possible next steps.
C18_SearchOrder ==
    [][(pc = "solve" /\ stack # <<>>) =>
          LET n == Len(stack)
              f == Top
          IN /\ (Len(stack') = n /\ f.phase = "enter") =>
                    /\ stack'[n].phase = "try"
                    /\ stack'[n].ei = 1
                    /\ stack'[n].shift_length = reqs.shift_lengths[1]
                    /\ FirstShortSlot(schedule, DayOf(f), stack'[n].start_hour,
                                      stack'[n].role)
             /\ (Len(stack') = n /\ f.phase = "try") =>
                    /\ ~PairValid(f)
                    /\ NextPair(f, stack'[n])
                    /\ schedule' = schedule
             /\ (Len(stack') = n /\ f.phase = "wait") =>
                    /\ ret = "false"
                    /\ NextPair(f, stack'[n])
                    /\ stack'[n].phase = "try"
             /\ (Len(stack') = n + 1 /\ f.phase = "try") =>
                    /\ PairValid(f)
                    /\ PairApplied(f)
                    /\ stack'[n].ei = f.ei
                    /\ stack'[n].shift_length = f.shift_length
                    /\ stack'[n + 1].index = f.index
             /\ ret = "true" => schedule' = schedule
             /\ StepsEnabled <= 1
      ]_vars

\* C18 witness: on a later day the second eligible employee is being tried
\* with the longer length for a slot after the opening hour
C18_Witness ==
    /\ pc = "solve" /\ stack # <<>> /\ Top.phase = "try"
    /\ Top.index > 0 /\ Top.ei = 2
    /\ Top.shift_length > reqs.shift_lengths[1]
    /\ Top.start_hour > reqs.work_hours[1]
    /\ PairValid(Top)

\* C19: whenever assign_extra_shifts is about to attempt a day for an
\* employee, no day it will attempt later for that employee is ranked before
\* it by the current total of staffed slots (filler shifts added earlier in
\* the pass included), ties by calendar order.
C19_DaysByCurrentCount ==
    (/\ pc = "balance" /\ bal.phase = "day"
     /\ bal.di <= Len(bal.sorted_days) /\ bal.required_hours > 0) =>
        \A k \in DOMAIN bal.sorted_days :
            k > bal.di =>
                ~RankedBefore(schedule, bal.sorted_days[k], BalDayName)

\* the step added one filler shift for e, at hour h of day d: "Floater" role,
\* shift_lengths.min hours, valid when added, no earlier open hour of the day
\* valid, e below min_hours before the step and when the Balancer started
FillerStep(e, d, h) ==
    LET u == update_schedule(e, Floater, d, h, reqs.shift_lengths[1],
                             schedule, weekly_assigned_hours, daily_shifts)
    IN /\ schedule' = u.schedule
       /\ weekly_assigned_hours' = u.weekly_assigned_hours
       /\ HoursOf(schedule', e.name, d)
              = h .. (h + reqs.shift_lengths[1] - 1)
       /\ \A c \in CellsOf(schedule', e.name, d) : c[2] = Floater
       /\ is_valid_assignment(e, Floater, d, h, reqs.shift_lengths[1],
                              weekly_assigned_hours, daily_shifts, reqs)
       /\ \A h2 \in OpenHours :
              h2 < h =>
                  ~is_valid_assignment(e, Floater, d, h2, reqs.shift_lengths[1],
                                       weekly_assigned_hours, daily_shifts, reqs)
       /\ weekly_assigned_hours[e.name] < e.min_hours
       /\ SolverHours(schedule, e.name) < e.min_hours

\* C20: every step of assign_extra_shifts that changes the schedule adds one
\* "Floater" shift of shift_lengths.min hours that is valid when added, at
\* the earliest valid open hour of its day, for an employee who is below
\* min_hours at that moment and was below it when the Balancer started.
C20_FillerShape ==
    [][(pc = "balance" /\ schedule' # schedule) =>
          \E e \in Range(employees) : \E d \in Range(days) :
              \E h \in OpenHours : FillerStep(e, d, h)]_vars

\* C20 witness: a filler shift that starts after the opening hour, next to an
\* employee who was not below min_hours and holds no filler shift
C20_Witness ==
    /\ pc = "balance"
    /\ \E n \in Names : \E d \in FloaterDays(schedule, n) :
          ShiftStart(schedule, n, d) > reqs.work_hours[1]
    /\ \E e \in Range(employees) :
          /\ SolverHours(schedule, e.name) >= e.min_hours
          /\ FloaterDays(schedule, e.name) = {}

\* C21: a call of is_valid_assignment returns False exactly when the weekly
\* hours plus the shift length exceed max_hours, or the day is already in the
\* employee's daily_shifts, or the day is a day off, or the shift starts
\* before the availability start, or it ends after closing time, or it ends
\* after the availability end; otherwise it returns True; the call changes
\* neither the schedule nor weekly_assigned_hours nor daily_shifts.
C21_RejectsExactly ==
    [][pc = "unit" =>
          LET e == employees[1]
              a == stack'[1]
          IN /\ ret' \in {"true", "false"}
             /\ ret' = "false" <=>
                    \/ weekly_assigned_hours[e.name] + a.shift_length
                           > e.max_hours
                    \/ /\ e.name \in DOMAIN daily_shifts
                       /\ \E i \in DOMAIN daily_shifts[e.name] :
                              daily_shifts[e.name][i] = a.day
                    \/ a.day \in e.days_off
                    \/ a.start_hour < e.availability[1]
                    \/ a.start_hour + a.shift_length > reqs.work_hours[2]
                    \/ a.start_hour + a.shift_length > e.availability[2]
             /\ schedule' = schedule
             /\ weekly_assigned_hours' = weekly_assigned_hours
             /\ daily_shifts' = daily_shifts
      ]_vars

\* C21 witness: a call was rejected for the availability end alone: within
\* max_hours, a free day, no day off, inside store hours
C21_Witness ==
    /\ pc = "unit" /\ stack # <<>> /\ ret = "false"
    /\ LET e == employees[1]
           a == stack[1]
       IN /\ weekly_assigned_hours[e.name] + a.shift_length <= e.max_hours
          /\ a.day \notin Range(Get(daily_shifts, e.name, <<>>))
          /\ a.day \notin e.days_off
          /\ a.start_hour >= e.availability[1]
          /\ a.start_hour + a.shift_length <= reqs.work_hours[2]
          /\ a.start_hour + a.shift_length > e.availability[2]

\* number of employees in the role's cell, zero when the cell is absent
InCell(cells, r) == IF r \in DOMAIN cells THEN Len(cells[r]) ELSE 0

\* C22: a call of meets_critical_minimums_for_day returns True exactly when,
\* for every hour recorded under schedule[day] and every critical role, the
\* role's own cell at that hour (zero when absent) holds at least
\* critical_minimums[role] employees, whatever other cells such as "Floater"
\* hold; the call leaves the schedule unchanged.
C22_DayCheckExact ==
    [][pc = "unit" =>
          LET day == stack'[1].day
          IN /\ ret' \in {"true", "false"}
             /\ ret' = "true" <=>
                    \A hour \in DOMAIN schedule[day] :
                        \A role \in DOMAIN reqs.critical_minimums :
                            InCell(schedule[day][hour], role)
                                >= reqs.critical_minimums[role]
             /\ schedule' = schedule
      ]_vars

\* C22 witness: the check failed on a day where an hour lists two employees
\* under "Floater" and none under a critical role
C22_Witness ==
    /\ pc = "unit" /\ stack # <<>> /\ ret = "false"
    /\ stack[1].day = "Monday"
    /\ \E h \in DOMAIN schedule["Monday"] :
          /\ DOMAIN schedule["Monday"][h] = {Floater}
          /\ Len(schedule["Monday"][h][Floater]) = 2
    /\ \A h \in DOMAIN schedule["Monday"] :
          Floater \in DOMAIN schedule["Monday"][h]

\* the calls waiting on a recursive call for the same day index, and the
\* (employee, day) pairs marked as worked
WaitingCalls == {k \in DOMAIN stack : stack[k].phase = "wait"}

WorkedPairs ==
    {p \in Names \X Range(days) : p[2] \in Range(Get(daily_shifts, p[1], <<>>))}

\* every call waiting on a same-index recursive call stands for one more
\* (employee, day) pair marked as worked
OnePairPerCall ==
    (pc = "solve" /\ ret # "true") =>
        Cardinality(WaitingCalls) = Cardinality(WorkedPairs)

\* C23 as stated: the top-level call eventually returns, and the recursion
\* depth never exceeds employees times days.
C23_Original ==
    /\ <>SolverReturned
    /\ [](Len(stack) <= Len(employees) * Len(days))

\* C23 amended: the top-level call eventually returns True or False; each
\* call waiting on a same-index recursive call stands for one more
\* (employee, day) pair marked as worked, so there are at most employees
\* times days of them, and with one more call per day for the step to the
\* next day and the terminal call the recursion depth is at most
\* (employees + 1) times days plus one.
C23_Terminates ==
    /\ <>SolverReturned
    /\ [](/\ OnePairPerCall
          /\ Cardinality(WaitingCalls) <= Len(employees) * Len(days)
          /\ Len(stack) <= (Len(employees) + 1) * Len(days) + 1)

\* C23 witness: the top-level call has returned True after a search that
\* marked every (employee, day) pair of a two-employee week as worked
C23_Witness ==
    /\ SolverSucceeded /\ pc = "solve"
    /\ Len(employees) = 2
    /\ Cardinality(WorkedPairs) = Len(employees) * Len(days)

=============================================================================
